---- MODULE Spec2Model ----
(***************************************************************************)
(* Model of the coordination and queueing code of ramusaaa/goscraper:      *)
(*   - package cluster (src/pkg/monitoring/metrics.go, lines 360-786):     *)
(*     ConsulCoordinator over a Consul KV store with TTL sessions;         *)
(*   - package queue (src/config.go, lines 117-376): KafkaQueue, JobQueue  *)
(*     and PriorityQueue over a Kafka broker.                              *)
(*   - package cache (src/pkg/stealth/antibot.go, lines 309-539):          *)
(*     DistributedCache over two RedisCache tiers.                         *)
(* Consul and Kafka are modelled by the documented behaviour of the calls  *)
(* the code makes (hashicorp/consul/api, segmentio/kafka-go).              *)
(* Time is counted in units of 10 seconds.                                 *)
(***************************************************************************)
EXTENDS Integers, Sequences, FiniteSets, TLC

(***************************************************************************)
(* Bounds of the model.                                                    *)
(***************************************************************************)
MaxNodes == 3
MaxSessions == 3
MaxJobs == 1
MaxLog == 3
JobMaxRetries == 2
MaxRegistered == 2
MaxStreams == 2
EventChCap == 2

NodeIds == 1..MaxNodes
Coords == {1, 2}
SessionIds == 1..MaxSessions
Streams == 1..MaxStreams
NoNode == 0
NoSession == 0

(***************************************************************************)
(* Node values (type Node, NodeLoad).  cpu and mem are in tenths: the      *)
(* fields CPU and Memory hold the float64 nearest to cpu/10 and mem/10.    *)
(* LightLoad and HeavyLoad are the loads of Scenario A.  EvenLoad and      *)
(* BusyLoad have the same score, in float64 too (every term is a multiple  *)
(* of 1/2): cpu .5, mem .5 with no active job, and cpu 0, mem .5 with one  *)
(* active job.  SpareCpuLoad and SpareMemLoad have the same score in the   *)
(* real numbers and float64 scores one unit in the last place apart:       *)
(* cpu 0, mem .3 and cpu .1, mem .2, both with 3 active jobs.              *)
(***************************************************************************)
NilLoad == [nil |-> TRUE, cpu |-> 0, mem |-> 0, active |-> 0]
LightLoad == [nil |-> FALSE, cpu |-> 1, mem |-> 1, active |-> 0]
HeavyLoad == [nil |-> FALSE, cpu |-> 9, mem |-> 9, active |-> 5]
EvenLoad == [nil |-> FALSE, cpu |-> 5, mem |-> 5, active |-> 0]
BusyLoad == [nil |-> FALSE, cpu |-> 0, mem |-> 5, active |-> 1]
SpareCpuLoad == [nil |-> FALSE, cpu |-> 0, mem |-> 3, active |-> 3]
SpareMemLoad == [nil |-> FALSE, cpu |-> 1, mem |-> 2, active |-> 3]
Loads == {LightLoad, HeavyLoad}
ScoredLoads == {NilLoad, LightLoad, HeavyLoad, EvenLoad, BusyLoad, SpareCpuLoad,
                SpareMemLoad}
Statuses == {"active", "inactive"}
CapSets == {{"http"}, {"http", "browser_scraping"}}
NodeValues == [status : Statuses, caps : CapSets, load : Loads \cup {NilLoad}]
NoVal == [status |-> "none", caps |-> {}, load |-> NilLoad]

(***************************************************************************)
(* Sessions: TTL "30s", renewed by a ticker of 10 seconds.                 *)
(***************************************************************************)
SessionTTL == 3
RenewInterval == 1
DetectBound == SessionTTL + RenewInterval

(***************************************************************************)
(* Jobs handed to DistributeJob (type Job); a priority is one of 0..10.    *)
(***************************************************************************)
MaxPriority == 10
PriorityRange == 0..MaxPriority
Priorities == {0, 5}
ReqSets == {{}, {"http"}, {"browser_scraping"}}
JobIds == 1..MaxJobs
DistJobs == [id : {1}, priority : Priorities, reqs : ReqSets]

VARIABLES
    kvNodes,     \* Consul KV under <prefix>/nodes/: node id -> Node value
    kvLeader,    \* Consul KV <prefix>/leader: its value and the session holding it
    sessions,    \* Consul sessions and the renewSession goroutine of each
    cNodes,      \* c.nodes of each coordinator (the ids; guarded by c.mu)
    cancelled,   \* whether the context of each coordinator is cancelled
    call,        \* the API call each coordinator has in flight
    dist,        \* the last DistributeJob call and what it returned
    assigned,    \* job id -> the nodes DistributeJob has returned for the job,
                 \*   each with whether the caller was the leader
    assignedTo,  \* job id -> the job's AssignedTo field
    elected,     \* coordinator -> what its last ElectLeader returned
    gap,         \* time since the leader lock was released and not taken again
    leaseAge,    \* node id -> time since its lease was created or renewed
    mu,          \* coordinator -> whether a watch loop holds c.mu
    watch,       \* stream -> the goroutine of WatchNodes
    eventCh,     \* stream -> the events buffered in its channel
    received,    \* stream -> the last event its consumer received
    topics,      \* Kafka: tier -> the messages (jobs) of the tier's topic
    offset,      \* Kafka: tier -> the offset committed for the consumer group
    reader,      \* tier -> the goroutine KafkaQueue.Subscribe started for it
    invoked,     \* the last invocation of the handler
    delivered,   \* job id -> how often the handler was invoked with the job
    failures,    \* job id -> how often the handler returned an error for it
    deadLetter,  \* the jobs published to a dead-letter destination
    nextId,      \* the id of the next job to enqueue
    enq,         \* the last PriorityQueue.Enqueue call and how it ended
    now,         \* cache: the clock, what time.Now() returns
    primary,     \* cache: the key in the Redis of the primary tier
    secondary,   \* cache: the key in the Redis of the secondary tier
    lookup       \* cache: the last DistributedCache.Get and what it returned

clusterVars == <<kvNodes, kvLeader, sessions, cNodes, cancelled, call, dist,
                 assigned, assignedTo, elected, gap, leaseAge, mu, watch, eventCh,
                 received>>
queueVars == <<topics, offset, reader, invoked, delivered, failures, deadLetter,
               nextId, enq>>
cacheVars == <<now, primary, secondary, lookup>>
vars == <<clusterVars, queueVars, cacheVars>>

storeVars == <<kvNodes, kvLeader, sessions>>
schedVars == <<dist, assigned, assignedTo>>
watchVars == <<mu, watch, eventCh, received>>

FreeSession == [live |-> FALSE, kind |-> "none", owner |-> 0, ctx |-> 0,
                age |-> 0, task |-> FALSE]
NoLeader == [value |-> 0, session |-> NoSession]
Idle == [op |-> "idle", id |-> 0, val |-> NoVal]
\* the goroutine of WatchNodes: where it is, the ids of currentNodes, the
\* events processNodeChanges still has to send, and what it has sent: prev
\* is the snapshot of the pass before (passes counts them up to 2),
\* sentJoined and sentLeft the ids of the events of this pass, last the type
\* of the last event of each id, repeated whether an id got the same type
\* of event twice in a row
NoWatch == [pc |-> "off", coord |-> 0, snap |-> {}, joined |-> {}, left |-> {},
            prev |-> {}, passes |-> 0, sentJoined |-> {}, sentLeft |-> {},
            last |-> [n \in NodeIds |-> "none"], repeated |-> FALSE]
NoEvent == [type |-> "none", id |-> 0]

(***************************************************************************)
(* nodeSupportsJob: every requirement is one of the node's capabilities.   *)
(***************************************************************************)
nodeSupportsJob(node, job) ==
    \A req \in job.reqs : \E cap \in node.caps : cap = req

(***************************************************************************)
(* float64.  A value is the integer number of units of 2^-FracBits it      *)
(* holds, written as its limbs to the base 2^LimbBits, lowest first (the   *)
(* values of the model are below 2^(LimbBits * Limbs - FracBits), and      *)
(* every one that is not zero is at least 2^-GuardBits, so each float64    *)
(* among them is a whole number of units).  An operation of float64 is     *)
(* the exact operation followed by Round: rounding to Significand          *)
(* significant bits, to nearest, ties to even (IEEE 754).                  *)
(***************************************************************************)
LimbBits == 14
LimbBase == 2 ^ LimbBits
Limbs == 6
FracBits == 60
GuardBits == 8
Significand == 53

Zeros(len) == [i \in 1..len |-> 0]
One(len) == <<1>> \o Zeros(len - 1)
Fit(x, len) == IF Len(x) >= len THEN SubSeq(x, 1, len) ELSE x \o Zeros(len - Len(x))

RECURSIVE AddFrom(_, _, _, _)
AddFrom(x, y, i, carry) ==
    IF i > Len(x) THEN <<>>
    ELSE LET sum == x[i] + y[i] + carry
         IN <<sum % LimbBase>> \o AddFrom(x, y, i + 1, sum \div LimbBase)

BigAdd(x, y) == AddFrom(x, y, 1, 0)

RECURSIVE SubFrom(_, _, _, _)
SubFrom(x, y, i, borrow) ==
    IF i > Len(x) THEN <<>>
    ELSE LET diff == x[i] - y[i] - borrow
         IN <<(diff + LimbBase) % LimbBase>>
                \o SubFrom(x, y, i + 1, IF diff < 0 THEN 1 ELSE 0)

\* x - y, for x >= y
BigSub(x, y) == SubFrom(x, y, 1, 0)

RECURSIVE MulSmallFrom(_, _, _, _)
MulSmallFrom(x, k, i, carry) ==
    IF i > Len(x) THEN <<>>
    ELSE LET prod == x[i] * k + carry
         IN <<prod % LimbBase>> \o MulSmallFrom(x, k, i + 1, prod \div LimbBase)

\* x * k for k < LimbBase
BigMulSmall(x, k) == MulSmallFrom(x, k, 1, 0)

RECURSIVE DivSmallFrom(_, _, _, _)
DivSmallFrom(x, k, i, rem) ==
    IF i = 0 THEN <<<<>>, rem>>
    ELSE LET cur == rem * LimbBase + x[i]
             rest == DivSmallFrom(x, k, i - 1, cur % k)
         IN <<Append(rest[1], cur \div k), rest[2]>>

\* <<x \div k, x % k>> for k < LimbBase
BigDivSmall(x, k) == DivSmallFrom(x, k, Len(x), 0)

RECURSIVE ColumnSum(_, _, _, _)
ColumnSum(x, y, col, i) ==
    IF i > Len(x) THEN 0
    ELSE (IF col + 1 - i \in 1..Len(y) THEN x[i] * y[col + 1 - i] ELSE 0)
         + ColumnSum(x, y, col, i + 1)

RECURSIVE MulFrom(_, _, _, _)
MulFrom(x, y, col, carry) ==
    IF col > Len(x) + Len(y) THEN <<>>
    ELSE LET sum == ColumnSum(x, y, col, 1) + carry
         IN <<sum % LimbBase>> \o MulFrom(x, y, col + 1, sum \div LimbBase)

\* x * y, of Len(x) + Len(y) limbs
BigMul(x, y) == MulFrom(x, y, 1, 0)

RECURSIVE GreaterFrom(_, _, _)
GreaterFrom(x, y, i) ==
    IF i = 0 THEN FALSE
    ELSE IF x[i] # y[i] THEN x[i] > y[i]
    ELSE GreaterFrom(x, y, i - 1)

\* x > y
BigGreater(x, y) == GreaterFrom(x, y, Len(x))

RECURSIVE BitsOf(_)
BitsOf(k) == IF k = 0 THEN 0 ELSE 1 + BitsOf(k \div 2)

RECURSIVE BitLenFrom(_, _)
BitLenFrom(x, i) ==
    IF i = 0 THEN 0
    ELSE IF x[i] # 0 THEN LimbBits * (i - 1) + BitsOf(x[i])
    ELSE BitLenFrom(x, i - 1)

\* the number of significant bits of x
BitLen(x) == BitLenFrom(x, Len(x))

\* <<x \div 2^bits, whether x % 2^bits is not 0>>
ShiftRight(x, bits) ==
    LET whole == bits \div LimbBits
        kept == SubSeq(x, whole + 1, Len(x)) \o Zeros(whole)
        quot == BigDivSmall(kept, 2 ^ (bits % LimbBits))
    IN <<quot[1], quot[2] # 0 \/ \E i \in 1..whole : i <= Len(x) /\ x[i] # 0>>

\* x * 2^bits
ShiftLeft(x, bits) ==
    SubSeq(Zeros(bits \div LimbBits) \o BigMulSmall(x, 2 ^ (bits % LimbBits)),
           1, Len(x))

\* the exact value x, or a value between x and x + 1 when sticky, rounded
\* to Significand significant bits
Round(x, sticky) ==
    LET drop == BitLen(x) - Significand IN
    IF drop <= 0 THEN x
    ELSE LET half == ShiftRight(x, drop - 1)
             quot == BigDivSmall(half[1], 2)
             up == quot[2] = 1 /\ (half[2] \/ sticky \/ quot[1][1] % 2 = 1)
         IN ShiftLeft(IF up THEN BigAdd(quot[1], One(Len(x))) ELSE quot[1], drop)

\* float64(k) of a small integer
Float(k) == ShiftLeft(Fit(<<k>>, Limbs), FracBits)

FloatAdd(x, y) == Round(BigAdd(x, y), FALSE)
FloatSub(x, y) == Round(BigSub(x, y), FALSE)
FloatMul(x, y) ==
    Fit(ShiftRight(Round(BigMul(x, y), FALSE), FracBits)[1], Limbs)

\* float64(k) / float64(d) of small integers
FloatDiv(k, d) ==
    LET quot == BigDivSmall(ShiftLeft(Float(k), GuardBits), d)
    IN ShiftRight(Round(quot[1], quot[2] # 0), GuardBits)[1]

(***************************************************************************)
(* calculateNodeScore:                                                     *)
(*   ((1-cpu) + (1-memory) + 1/(activeJobs+1)) * (1 + priority/10)         *)
(* in float64, and 0 for a node without a load snapshot.  ScoreFormula is  *)
(* the formula, ScoreTable its values for the loads and priorities of the  *)
(* model.                                                                  *)
(***************************************************************************)
ScoreFormula(load, priority) ==
    LET cpuScore == FloatSub(Float(1), FloatDiv(load.cpu, 10))
        memoryScore == FloatSub(Float(1), FloatDiv(load.mem, 10))
        jobScore == FloatDiv(1, load.active + 1)
        priorityWeight == FloatDiv(priority, 10)
    IN FloatMul(FloatAdd(FloatAdd(cpuScore, memoryScore), jobScore),
                FloatAdd(Float(1), priorityWeight))

ScoreTable ==
    [load \in ScoredLoads, priority \in PriorityRange |-> ScoreFormula(load, priority)]

calculateNodeScore(node, job) ==
    IF node.load.nil THEN Zeros(Limbs) ELSE ScoreTable[node.load, job.priority]

\* score > bestScore
ScoreGreater(score, bestScore) == BigGreater(score, bestScore)

(***************************************************************************)
(* The loop of DistributeJob over the nodes GetNodes returned.  KV().List  *)
(* returns the keys in lexical order, which is the order of the node ids.  *)
(* best is the id of bestNode (NoNode for nil).                            *)
(***************************************************************************)
\* the filter without its status test (a variant, to show what C9 rests on)
EligibleAnyStatus(node, job) == nodeSupportsJob(node, job)

Eligible(node, job) == node.status = "active" /\ nodeSupportsJob(node, job)

\* the comparison turned around (a variant, to show what C10 rests on)
TakesOverLower(nodes, i, best, job) ==
    best = NoNode
    \/ ScoreGreater(calculateNodeScore(nodes[best], job),
                    calculateNodeScore(nodes[i], job))

TakesOver(nodes, i, best, job) ==
    best = NoNode
    \/ ScoreGreater(calculateNodeScore(nodes[i], job),
                    calculateNodeScore(nodes[best], job))

RECURSIVE ScanNodes(_, _, _, _)
ScanNodes(nodes, i, best, job) ==
    IF i > MaxNodes THEN best
    ELSE IF i \notin DOMAIN nodes THEN ScanNodes(nodes, i + 1, best, job)
    ELSE IF ~Eligible(nodes[i], job) THEN ScanNodes(nodes, i + 1, best, job)
    ELSE IF TakesOver(nodes, i, best, job) THEN ScanNodes(nodes, i + 1, i, job)
    ELSE ScanNodes(nodes, i + 1, best, job)

BestNode(nodes, job) == ScanNodes(nodes, 1, NoNode, job)

\* GetNodes: the nodes listed under the prefix
GetNodes == kvNodes

\* GetNode: the node stored under the id, or the error "node not found"
GetNode(id) == IF id \in DOMAIN kvNodes THEN kvNodes[id] ELSE NoVal

NoDist == [coord |-> 0, job |-> 0, priority |-> 0, reqs |-> {}, node |-> NoNode,
           err |-> "none", leader |-> FALSE]

\* IsLeader: the value of the leader key is this coordinator's node id
IsLeader(c) == kvLeader.value = c

(***************************************************************************)
(* DistributeJob on coordinator c.  storeUp = FALSE is a failed KV().List. *)
(* The job's AssignedTo field is not written and nothing is stored: the    *)
(* returned node is the only trace of the assignment (assigned records it, *)
(* with whether c was the leader at the call).                             *)
(***************************************************************************)
DistributeJob(c, job, storeUp) ==
    LET best == IF storeUp THEN BestNode(GetNodes, job) ELSE NoNode IN
    /\ dist' = [coord |-> c, job |-> job.id, priority |-> job.priority,
                reqs |-> job.reqs, node |-> best,
                err |-> IF ~storeUp THEN "list_failed"
                        ELSE IF best = NoNode THEN "no_suitable_node"
                        ELSE "none",
                leader |-> IsLeader(c)]
    /\ assigned' = IF best = NoNode THEN assigned
                   ELSE [assigned EXCEPT ![job.id] =
                            @ \cup {[node |-> best, leader |-> IsLeader(c)]}]
    /\ UNCHANGED <<cacheVars, queueVars, watchVars, storeVars, cNodes, cancelled, call, assignedTo, elected, gap,
                   leaseAge>>

(***************************************************************************)
(* Sessions.  Session().Create takes the lowest free slot of the model.    *)
(***************************************************************************)
FreeSlots == {s \in SessionIds : ~sessions[s].live /\ ~sessions[s].task}
NewSession == CHOOSE s \in FreeSlots : \A t \in FreeSlots : s <= t

\* go c.renewSession(ctx, sessionID): returns at once if ctx is cancelled
Spawned(c) == ~cancelled[c]

(***************************************************************************)
(* RegisterNode up to c.mu.Lock(): Session().Create, KV().Put and          *)
(* go renewSession.  KV().Put respects only Key, Flags and Value: the      *)
(* Session field of the pair is ignored, so the key is not tied to the     *)
(* session.                                                                *)
(***************************************************************************)
\* a registration that keeps the entry an id already has (a variant, to show
\* what C15 rests on)
RegisterNodeStoreNew(c, id, val) ==
    /\ FreeSlots # {}
    /\ sessions' = [sessions EXCEPT ![NewSession] =
                       [live |-> TRUE, kind |-> "node", owner |-> id, ctx |-> c,
                        age |-> 0, task |-> Spawned(c)]]
    /\ kvNodes' = [n \in DOMAIN kvNodes \cup {id} |->
                       IF n \in DOMAIN kvNodes THEN kvNodes[n] ELSE val]
    /\ leaseAge' = [leaseAge EXCEPT ![id] = 0]
    /\ call' = [call EXCEPT ![c] = [op |-> "register", id |-> id, val |-> val]]
    /\ UNCHANGED <<cacheVars, queueVars, watchVars, kvLeader, cNodes, cancelled, schedVars, elected, gap>>

RegisterNodeStore(c, id, val) ==
    /\ FreeSlots # {}
    /\ sessions' = [sessions EXCEPT ![NewSession] =
                       [live |-> TRUE, kind |-> "node", owner |-> id, ctx |-> c,
                        age |-> 0, task |-> Spawned(c)]]
    /\ kvNodes' = [n \in DOMAIN kvNodes \cup {id} |->
                       IF n = id THEN val ELSE kvNodes[n]]
    /\ leaseAge' = [leaseAge EXCEPT ![id] = 0]
    /\ call' = [call EXCEPT ![c] = [op |-> "register", id |-> id, val |-> val]]
    /\ UNCHANGED <<cacheVars, queueVars, watchVars, kvLeader, cNodes, cancelled, schedVars, elected, gap>>

RegisterNode(c, id, val) ==
    /\ call[c] = Idle
    /\ RegisterNodeStore(c, id, val)

\* RegisterNode from c.mu.Lock() to its return
RegisterNodeCache(c) ==
    /\ call[c].op = "register"
    /\ ~mu[c]
    /\ cNodes' = [cNodes EXCEPT ![c] = @ \cup {call[c].id}]
    /\ call' = [call EXCEPT ![c] = Idle]
    /\ UNCHANGED <<cacheVars, queueVars, watch, eventCh, received, mu, storeVars, cancelled, schedVars, elected, gap, leaseAge>>

\* UnregisterNode up to c.mu.Lock(): KV().Delete of the node's key
UnregisterNode(c, id) ==
    /\ call[c] = Idle
    /\ kvNodes' = [n \in DOMAIN kvNodes \ {id} |-> kvNodes[n]]
    /\ leaseAge' = [leaseAge EXCEPT ![id] = 0]
    /\ call' = [call EXCEPT ![c] = [op |-> "unregister", id |-> id, val |-> NoVal]]
    /\ UNCHANGED <<cacheVars, queueVars, watchVars, kvLeader, sessions, cNodes, cancelled, schedVars, elected, gap>>

\* UnregisterNode from c.mu.Lock() to its return
UnregisterNodeCache(c) ==
    /\ call[c].op = "unregister"
    /\ ~mu[c]
    /\ cNodes' = [cNodes EXCEPT ![c] = @ \ {call[c].id}]
    /\ call' = [call EXCEPT ![c] = Idle]
    /\ UNCHANGED <<cacheVars, queueVars, watch, eventCh, received, mu, storeVars, cancelled, schedVars, elected, gap, leaseAge>>

(***************************************************************************)
(* UpdateNodeLoad: GetNode, then RegisterNode of the node that was read    *)
(* with the new load.  (With no entry for id, GetNode fails and the call   *)
(* returns the error with no effect.)                                      *)
(***************************************************************************)
\* an update that writes a fresh node with the load (a variant, to show what
\* C17 rests on)
UpdateNodeLoadFresh(c, id, load) ==
    /\ call[c] = Idle
    /\ id \in DOMAIN kvNodes
    /\ call' = [call EXCEPT ![c] =
                   [op |-> "update", id |-> id,
                    val |-> [status |-> "active", caps |-> {}, load |-> load]]]
    /\ UNCHANGED <<cacheVars, queueVars, watchVars, storeVars, cNodes, cancelled, schedVars, elected, gap, leaseAge>>

UpdateNodeLoad(c, id, load) ==
    /\ call[c] = Idle
    /\ id \in DOMAIN kvNodes
    /\ call' = [call EXCEPT ![c] =
                   [op |-> "update", id |-> id,
                    val |-> [kvNodes[id] EXCEPT !.load = load]]]
    /\ UNCHANGED <<cacheVars, queueVars, watchVars, storeVars, cNodes, cancelled, schedVars, elected, gap, leaseAge>>

UpdateNodeLoadRegister(c) ==
    /\ call[c].op = "update"
    /\ RegisterNodeStore(c, call[c].id, call[c].val)

\* UpdateNodeLoad of an id with no entry: GetNode fails with "node not found"
UpdateNodeLoadMissing(c, id) ==
    /\ call[c] = Idle
    /\ id \notin DOMAIN kvNodes
    /\ call' = [call EXCEPT ![c] = [op |-> "update_error", id |-> id, val |-> NoVal]]
    /\ UNCHANGED <<cacheVars, queueVars, watchVars, storeVars, cNodes, cancelled, schedVars, elected, gap, leaseAge>>

\* UpdateNodeLoad returns the error of GetNode
UpdateNodeLoadError(c) ==
    /\ call[c].op = "update_error"
    /\ call' = [call EXCEPT ![c] = Idle]
    /\ UNCHANGED <<cacheVars, queueVars, watchVars, storeVars, cNodes, cancelled, schedVars, elected, gap, leaseAge>>

(***************************************************************************)
(* ElectLeader: Session().Create, then KV().Acquire of the leader key      *)
(* with the node id as value.  Acquire succeeds when no session holds the  *)
(* key; otherwise the value of the key is read and returned.  (The lock    *)
(* delay of one second is below the unit of time.)                         *)
(***************************************************************************)
\* an election that writes the leader key whoever holds it (a variant, to
\* show what C20 rests on)
ElectLeaderPut(c) ==
    /\ FreeSlots # {}
    /\ sessions' = [sessions EXCEPT ![NewSession] =
                       [live |-> TRUE, kind |-> "leader", owner |-> c, ctx |-> c,
                        age |-> 0, task |-> Spawned(c)]]
    /\ kvLeader' = [value |-> c, session |-> NewSession]
    /\ elected' = [elected EXCEPT ![c] = c]
    /\ gap' = 0
    /\ UNCHANGED <<cacheVars, queueVars, watchVars, kvNodes, cNodes, cancelled, call, schedVars, leaseAge>>

ElectLeader(c) ==
    /\ FreeSlots # {}
    /\ LET acquired == kvLeader.session = NoSession IN
       /\ sessions' = [sessions EXCEPT ![NewSession] =
                          [live |-> TRUE, kind |-> "leader", owner |-> c, ctx |-> c,
                           age |-> 0, task |-> acquired /\ Spawned(c)]]
       /\ kvLeader' = IF acquired THEN [value |-> c, session |-> NewSession]
                      ELSE kvLeader
       /\ elected' = [elected EXCEPT ![c] = IF acquired THEN c ELSE kvLeader.value]
       /\ gap' = IF acquired THEN 0 ELSE gap
    /\ UNCHANGED <<cacheVars, queueVars, watchVars, kvNodes, cNodes, cancelled, call, schedVars, leaseAge>>

(***************************************************************************)
(* renewSession: on a tick of its ticker, Session().Renew.                 *)
(***************************************************************************)
Renew(s) ==
    /\ sessions[s].task
    /\ sessions[s].live
    /\ sessions[s].age >= RenewInterval
    /\ sessions' = [sessions EXCEPT ![s].age = 0]
    /\ leaseAge' = IF sessions[s].kind = "node"
                   THEN [leaseAge EXCEPT ![sessions[s].owner] = 0]
                   ELSE leaseAge
    /\ UNCHANGED <<cacheVars, queueVars, watchVars, kvNodes, kvLeader, cNodes, cancelled, call, schedVars, elected, gap>>

\* renewSession: Session().Renew returns an error; the goroutine returns
RenewFail(s) ==
    /\ sessions[s].task
    /\ sessions[s].live
    /\ sessions' = [sessions EXCEPT ![s].task = FALSE]
    /\ UNCHANGED <<cacheVars, queueVars, watchVars, kvNodes, kvLeader, cNodes, cancelled, call, schedVars, elected, gap,
                   leaseAge>>

\* a cancellation that also deletes what the coordinator's sessions keep
\* alive (a variant, to show what C22 rests on)
CancelDeleting(c) ==
    /\ ~cancelled[c]
    /\ cancelled' = [cancelled EXCEPT ![c] = TRUE]
    /\ sessions' = [s \in SessionIds |->
                       IF sessions[s].ctx = c THEN FreeSession ELSE sessions[s]]
    /\ kvLeader' = IF kvLeader.session # NoSession /\ sessions[kvLeader.session].ctx = c
                   THEN NoLeader ELSE kvLeader
    /\ kvNodes' = [n \in {m \in DOMAIN kvNodes :
                              ~\E s \in SessionIds :
                                  /\ sessions[s].ctx = c
                                  /\ sessions[s].kind = "node"
                                  /\ sessions[s].owner = m} |-> kvNodes[n]]
    /\ UNCHANGED <<cacheVars, queueVars, watchVars, cNodes, call, schedVars, elected, gap, leaseAge>>

\* ctx.Done(): every renewSession goroutine started with the context returns
Cancel(c) ==
    /\ ~cancelled[c]
    /\ cancelled' = [cancelled EXCEPT ![c] = TRUE]
    /\ sessions' = [s \in SessionIds |->
                       IF sessions[s].ctx = c
                       THEN IF sessions[s].live
                            THEN [sessions[s] EXCEPT !.task = FALSE]
                            ELSE FreeSession
                       ELSE sessions[s]]
    /\ UNCHANGED <<cacheVars, queueVars, watchVars, kvNodes, kvLeader, cNodes, call, schedVars, elected, gap, leaseAge>>

\* a session invalidated without releasing the lock it holds (a variant, to
\* show what C12 rests on)
SessionExpireHolding(s) ==
    /\ sessions[s].live
    /\ sessions[s].age >= SessionTTL
    /\ sessions' = [sessions EXCEPT ![s] =
                       IF sessions[s].task
                       THEN [sessions[s] EXCEPT !.live = FALSE]
                       ELSE FreeSession]
    /\ UNCHANGED <<cacheVars, queueVars, watchVars, kvNodes, kvLeader, cNodes, cancelled, call,
                   schedVars, elected, gap, leaseAge>>

(***************************************************************************)
(* Consul invalidates a session that was not renewed for its TTL.          *)
(* Behavior release (leader sessions): the lock on the leader key is       *)
(* released and the key keeps its value.  Behavior delete (node sessions): *)
(* the keys the session holds are deleted; it holds none, see              *)
(* RegisterNodeStore.                                                      *)
(***************************************************************************)
SessionExpire(s) ==
    /\ sessions[s].live
    /\ sessions[s].age >= SessionTTL
    /\ sessions' = [sessions EXCEPT ![s] =
                       IF sessions[s].task
                       THEN [sessions[s] EXCEPT !.live = FALSE]
                       ELSE FreeSession]
    /\ kvLeader' = IF kvLeader.session = s
                   THEN [kvLeader EXCEPT !.session = NoSession]
                   ELSE kvLeader
    /\ UNCHANGED <<cacheVars, queueVars, watchVars, kvNodes, cNodes, cancelled, call, schedVars, elected, gap, leaseAge>>

(***************************************************************************)
(* Ten seconds pass.  A running renewSession renews on every tick of its   *)
(* ticker, and a session is invalidated when its TTL has passed.           *)
(***************************************************************************)
Bump(x, cap) == IF x < cap THEN x + 1 ELSE x

Tick ==
    /\ \A s \in SessionIds :
          sessions[s].live =>
             /\ sessions[s].age < SessionTTL
             /\ sessions[s].task => sessions[s].age < RenewInterval
    /\ sessions' = [s \in SessionIds |->
                       IF sessions[s].live
                       THEN [sessions[s] EXCEPT !.age = @ + 1]
                       ELSE sessions[s]]
    /\ gap' = IF kvLeader.value # 0 /\ kvLeader.session = NoSession
              THEN Bump(gap, SessionTTL + 1) ELSE gap
    /\ leaseAge' = [n \in NodeIds |->
                       IF n \in DOMAIN kvNodes
                       THEN Bump(leaseAge[n], DetectBound + 1) ELSE leaseAge[n]]
    /\ UNCHANGED <<cacheVars, queueVars, watchVars, kvNodes, kvLeader, cNodes, cancelled, call, schedVars, elected>>

(***************************************************************************)
(* WatchNodes: a goroutine that lists the node keys (a blocking query that *)
(* returns on a change or after its wait time) and hands the pairs to      *)
(* processNodeChanges.                                                     *)
(***************************************************************************)
WatchNodes(w, c) ==
    /\ watch[w].pc = "off"
    /\ watch' = [watch EXCEPT ![w] = [NoWatch EXCEPT !.pc = "list", !.coord = c]]
    /\ UNCHANGED <<cacheVars, queueVars, storeVars, cNodes, cancelled, call, schedVars, elected, gap,
                   leaseAge, mu, eventCh, received>>

\* the loop's select takes ctx.Done(): the goroutine returns and closes eventCh
WatchStop(w) ==
    /\ watch[w].pc = "list"
    /\ cancelled[watch[w].coord]
    /\ watch' = [watch EXCEPT ![w].pc = "closed"]
    /\ UNCHANGED <<cacheVars, queueVars, storeVars, cNodes, cancelled, call, schedVars, elected, gap,
                   leaseAge, mu, eventCh, received>>

\* KV().List returns; processNodeChanges builds currentNodes
WatchList(w) ==
    /\ watch[w].pc = "list"
    /\ ~cancelled[watch[w].coord]
    /\ watch' = [watch EXCEPT ![w].pc = "lock", ![w].snap = DOMAIN kvNodes]
    /\ UNCHANGED <<cacheVars, queueVars, storeVars, cNodes, cancelled, call, schedVars, elected, gap,
                   leaseAge, mu, eventCh, received>>

(***************************************************************************)
(* processNodeChanges takes c.mu.  Under the lock c.nodes does not change, *)
(* so the events of both loops are fixed here: joined for the ids of       *)
(* currentNodes that c.nodes lacks, left for the ids of c.nodes that       *)
(* currentNodes lacks.                                                     *)
(***************************************************************************)
WatchLock(w) ==
    LET c == watch[w].coord IN
    /\ watch[w].pc = "lock"
    /\ ~mu[c]
    /\ mu' = [mu EXCEPT ![c] = TRUE]
    /\ watch' = [watch EXCEPT ![w].pc = "send",
                              ![w].joined = watch[w].snap \ cNodes[c],
                              ![w].left = cNodes[c] \ watch[w].snap]
    /\ UNCHANGED <<cacheVars, queueVars, storeVars, cNodes, cancelled, call, schedVars, elected, gap,
                   leaseAge, eventCh, received>>

(***************************************************************************)
(* eventCh <- NodeEvent{...}: blocks while the channel is full.  The maps  *)
(* are ranged over in any order; the joined events come first.             *)
(***************************************************************************)
WatchSend(w, id) ==
    /\ watch[w].pc = "send"
    /\ Len(eventCh[w]) < EventChCap
    /\ \/ /\ id \in watch[w].joined
          /\ watch' = [watch EXCEPT ![w].joined = @ \ {id},
                                    ![w].sentJoined = @ \cup {id},
                                    ![w].last[id] = "node_joined",
                                    ![w].repeated = @ \/ watch[w].last[id] = "node_joined"]
          /\ eventCh' = [eventCh EXCEPT ![w] =
                            Append(@, [type |-> "node_joined", id |-> id])]
       \/ /\ watch[w].joined = {}
          /\ id \in watch[w].left
          /\ watch' = [watch EXCEPT ![w].left = @ \ {id},
                                    ![w].sentLeft = @ \cup {id},
                                    ![w].last[id] = "node_left",
                                    ![w].repeated = @ \/ watch[w].last[id] = "node_left"]
          /\ eventCh' = [eventCh EXCEPT ![w] =
                            Append(@, [type |-> "node_left", id |-> id])]
    /\ UNCHANGED <<cacheVars, queueVars, storeVars, cNodes, cancelled, call, schedVars, elected, gap,
                   leaseAge, mu, received>>

\* c.nodes = currentNodes, and the deferred c.mu.Unlock()
WatchUnlock(w) ==
    LET c == watch[w].coord IN
    /\ watch[w].pc = "send"
    /\ watch[w].joined = {}
    /\ watch[w].left = {}
    /\ cNodes' = [cNodes EXCEPT ![c] = watch[w].snap]
    /\ mu' = [mu EXCEPT ![c] = FALSE]
    /\ watch' = [watch EXCEPT ![w].pc = "list", ![w].snap = {},
                              ![w].prev = watch[w].snap,
                              ![w].passes = Bump(@, 2),
                              ![w].sentJoined = {}, ![w].sentLeft = {}]
    /\ UNCHANGED <<cacheVars, queueVars, storeVars, cancelled, call, schedVars, elected, gap, leaseAge,
                   eventCh, received>>

\* the caller of WatchNodes receives an event from the channel
Receive(w) ==
    /\ eventCh[w] # <<>>
    /\ received' = [received EXCEPT ![w] = Head(eventCh[w])]
    /\ eventCh' = [eventCh EXCEPT ![w] = Tail(@)]
    /\ UNCHANGED <<cacheVars, queueVars, storeVars, cNodes, cancelled, call, schedVars, elected, gap,
                   leaseAge, mu, watch>>

(***************************************************************************)
(* Package queue.  A PriorityQueue built by NewPriorityQueue over the      *)
(* priorities Tiers has one JobQueue, and one Kafka topic, per tier.  The  *)
(* readers belong to a consumer group (GroupID is set), so                 *)
(* Reader.ReadMessage commits the offset of the message it returns before  *)
(* it returns.                                                             *)
(***************************************************************************)
Tiers == {0, 1, 9}
JobPriorities == {1, 5, 9}
QueueJobIds == 1..MaxLog
NoReader == [state |-> "none", job |-> 0, skipped |-> FALSE]
IdleReader == [state |-> "idle", job |-> 0, skipped |-> FALSE]
NoInvoke == [job |-> 0, tier |-> 0, higher |-> FALSE]

\* a message of the tier's topic is not consumed yet
Ready(t) == offset[t] < Len(topics[t])
HigherReady(t) == \E q \in Tiers : q > t /\ Ready(q)

\* NewPriorityQueue: p.queues has a JobQueue for each of the priorities given
Configured == DOMAIN topics

\* PriorityQueue.Enqueue: the queue of job.Priority, or queues[0] without one
TierOf(priority) == IF priority \in Configured THEN priority ELSE 0

NoEnq == [job |-> 0, priority |-> 0, tier |-> 0, result |-> "none"]

(***************************************************************************)
(* PriorityQueue.Enqueue, JobQueue.Enqueue and KafkaQueue.Publish: the job *)
(* is written to the topic of its tier.  Without a queue for job.Priority  *)
(* and without one for 0, p.queues[0] is a nil *JobQueue, and              *)
(* JobQueue.Enqueue panics when it reads j.topic: the job is in no topic.  *)
(***************************************************************************)
Enqueue(priority) ==
    /\ nextId <= MaxLog
    /\ IF TierOf(priority) \in Configured
          THEN /\ topics' = [topics EXCEPT ![TierOf(priority)] =
                                Append(@, [id |-> nextId, priority |-> priority,
                                           retry |-> 0, maxRetries |-> JobMaxRetries])]
               /\ enq' = [job |-> nextId, priority |-> priority,
                          tier |-> TierOf(priority), result |-> "ok"]
          ELSE /\ enq' = [job |-> nextId, priority |-> priority, tier |-> 0,
                          result |-> "panic"]
               /\ UNCHANGED topics
    /\ nextId' = nextId + 1
    /\ UNCHANGED <<cacheVars, clusterVars, offset, reader, invoked, delivered, failures, deadLetter>>

(***************************************************************************)
(* PriorityQueue.Subscribe: JobQueue.Subscribe, and so                     *)
(* KafkaQueue.Subscribe, for every tier from 10 down to 0; each call       *)
(* starts a goroutine with a reader of the tier's topic and returns.       *)
(***************************************************************************)
Subscribe ==
    /\ \A t \in Tiers : reader[t].state = "none"
    /\ reader' = [t \in Tiers |-> IdleReader]
    /\ UNCHANGED <<cacheVars, clusterVars, topics, offset, invoked, delivered, failures, deadLetter, nextId, enq>>

\* the goroutine of tier t: reader.ReadMessage returns the next message
ReadMessage(t) ==
    /\ reader[t].state = "idle"
    /\ Ready(t)
    /\ reader' = [reader EXCEPT ![t] =
                     [state |-> "got", job |-> topics[t][offset[t] + 1].id,
                      skipped |-> HigherReady(t)]]
    /\ offset' = [offset EXCEPT ![t] = @ + 1]
    /\ UNCHANGED <<cacheVars, clusterVars, topics, invoked, delivered, failures, deadLetter, nextId, enq>>

(***************************************************************************)
(* The goroutine of tier t calls the handler with the job; ok is whether   *)
(* the handler returns nil.  On an error the loop continues with the next  *)
(* message.                                                                *)
(***************************************************************************)
Handle(t, ok) ==
    /\ reader[t].state = "got"
    /\ invoked' = [job |-> reader[t].job, tier |-> t,
                   higher |-> reader[t].skipped /\ HigherReady(t)]
    /\ delivered' = [delivered EXCEPT ![reader[t].job] = @ + 1]
    /\ failures' = [failures EXCEPT ![reader[t].job] = IF ok THEN @ ELSE @ + 1]
    /\ reader' = [reader EXCEPT ![t] = IdleReader]
    /\ UNCHANGED <<cacheVars, clusterVars, topics, offset, deadLetter, nextId, enq>>

\* the consumer process stops (a crash, or ctx.Done()): its goroutines end
Crash ==
    /\ \E t \in Tiers : reader[t].state # "none"
    /\ reader' = [t \in Tiers |-> NoReader]
    /\ UNCHANGED <<cacheVars, clusterVars, topics, offset, invoked, delivered, failures, deadLetter, nextId, enq>>

(***************************************************************************)
(* Package cache (src/pkg/stealth/antibot.go, lines 309-539).  A           *)
(* DistributedCache over two RedisCache tiers, for one key.  A tier holds  *)
(* the CacheItem of the key with its ExpiresAt, and the time at which the  *)
(* Redis server expires the key (a key is expired when the time is past    *)
(* it).  A call takes no time except where it says so.                     *)
(***************************************************************************)
MaxTime == 4
MaxTTL == 2
DefaultTTL == 2

NoItem == [present |-> FALSE, expiresAt |-> 0, keyExpiry |-> 0]
NoLookup == [status |-> "none", expiresAt |-> 0]

\* the Redis server has the key
Stored(tier) == tier.present /\ now <= tier.keyExpiry

\* RedisCache.Get returns the item: the key is there and
\* time.Now().After(item.ExpiresAt) is false
Hit(tier) == Stored(tier) /\ ~(now > tier.expiresAt)

\* the tier after RedisCache.Get: an item past its ExpiresAt is deleted
AfterGet(tier) == IF Stored(tier) /\ ~Hit(tier) THEN NoItem ELSE tier

\* RedisCache.Set at time at: a ttl of 0 is replaced by r.ttl
RedisSet(ttl, at) ==
    LET use == IF ttl = 0 THEN DefaultTTL ELSE ttl
    IN [present |-> TRUE, expiresAt |-> at + use, keyExpiry |-> at + use]

\* d.secondary.Set, by this or another instance over the shared tier
SecondarySet(ttl) ==
    /\ secondary' = RedisSet(ttl, now)
    /\ UNCHANGED <<clusterVars, queueVars, now, primary, lookup>>

(***************************************************************************)
(* DistributedCache.Get.  On a miss in the primary and a hit in the        *)
(* secondary the item is set in the primary with the ttl                   *)
(* time.Until(item.ExpiresAt); elapsed is the time that passes between     *)
(* this reading of the clock and the one of RedisCache.Set.                *)
(***************************************************************************)
Get(elapsed) ==
    IF Hit(primary)
    THEN /\ elapsed = 0
         /\ lookup' = [status |-> "primary", expiresAt |-> primary.expiresAt]
         /\ UNCHANGED <<clusterVars, queueVars, now, primary, secondary>>
    ELSE IF Hit(secondary)
    THEN /\ now + elapsed <= MaxTime
         /\ now' = now + elapsed
         /\ primary' = RedisSet(secondary.expiresAt - now, now + elapsed)
         /\ lookup' = [status |-> "secondary", expiresAt |-> secondary.expiresAt]
         /\ UNCHANGED <<clusterVars, queueVars, secondary>>
    ELSE /\ elapsed = 0
         /\ primary' = AfterGet(primary)
         /\ secondary' = AfterGet(secondary)
         /\ lookup' = [status |-> "miss", expiresAt |-> 0]
         /\ UNCHANGED <<clusterVars, queueVars, now>>

\* time passes
Clock ==
    /\ now < MaxTime
    /\ now' = now + 1
    /\ UNCHANGED <<clusterVars, queueVars, primary, secondary, lookup>>

InitCache ==
    /\ now = 0
    /\ primary = NoItem
    /\ secondary = NoItem
    /\ lookup = NoLookup

(***************************************************************************)
(* Initial state: NewConsulCoordinator on every coordinator, an empty      *)
(* store.                                                                  *)
(***************************************************************************)
InitCluster ==
    /\ kvLeader = NoLeader
    /\ sessions = [s \in SessionIds |-> FreeSession]
    /\ cNodes = [c \in Coords |-> {}]
    /\ cancelled = [c \in Coords |-> FALSE]
    /\ call = [c \in Coords |-> Idle]
    /\ dist = NoDist
    /\ assigned = [j \in JobIds |-> {}]
    /\ assignedTo = [j \in JobIds |-> NoNode]
    /\ elected = [c \in Coords |-> 0]
    /\ gap = 0
    /\ leaseAge = [n \in NodeIds |-> 0]
    /\ mu = [c \in Coords |-> FALSE]
    /\ watch = [w \in Streams |-> NoWatch]
    /\ eventCh = [w \in Streams |-> <<>>]
    /\ received = [w \in Streams |-> NoEvent]

\* NewPriorityQueue over the priorities tiers: a JobQueue and a topic for each
InitQueue(tiers) ==
    /\ topics = [t \in tiers |-> <<>>]
    /\ offset = [t \in tiers |-> 0]
    /\ reader = [t \in tiers |-> NoReader]
    /\ invoked = NoInvoke
    /\ delivered = [j \in QueueJobIds |-> 0]
    /\ failures = [j \in QueueJobIds |-> 0]
    /\ deadLetter = {}
    /\ nextId = 1
    /\ enq = NoEnq

InitRest ==
    /\ InitCluster
    /\ InitQueue(Tiers)
    /\ InitCache

Init ==
    /\ kvNodes = [n \in {} |-> NoVal]
    /\ InitRest

(***************************************************************************)
(* The coordinators of a cluster: nodes register with one of the           *)
(* ClusterValues, and the jobs distributed are the ClusterJobs.            *)
(***************************************************************************)
ClusterNodeIds == 1..MaxRegistered
ClusterValues == {[status |-> "active", caps |-> {"http"}, load |-> l] : l \in Loads}
LeaseValue == [status |-> "active", caps |-> {"http"}, load |-> LightLoad]
ClusterJobs == [id : JobIds, priority : {5}, reqs : {{"http"}}]

\* the renewal and expiry of sessions, and the passing of time
LeaseNext ==
    \/ \E s \in SessionIds : Renew(s)
    \/ \E s \in SessionIds : RenewFail(s)
    \/ \E c \in Coords : Cancel(c)
    \/ \E s \in SessionIds : SessionExpire(s)
    \/ Tick

\* SpecLeader: leader election over leased sessions
NextLeader ==
    \/ \E c \in Coords : ElectLeader(c)
    \/ LeaseNext

SpecLeader == Init /\ [][NextLeader]_vars

\* SpecLease: node registration by coordinator 1 over leased sessions
NextLease ==
    \/ \E id \in ClusterNodeIds : RegisterNode(1, id, LeaseValue)
    \/ RegisterNodeCache(1)
    \/ \E id \in ClusterNodeIds : UnregisterNode(1, id)
    \/ UnregisterNodeCache(1)
    \/ LeaseNext

SpecLease == Init /\ [][NextLease]_vars

\* SpecSched: job distribution by the coordinators of a cluster
NextSched ==
    \/ \E c \in Coords, id \in ClusterNodeIds, val \in ClusterValues :
          RegisterNode(c, id, val)
    \/ \E c \in Coords : RegisterNodeCache(c)
    \/ \E c \in Coords, id \in ClusterNodeIds, load \in Loads :
          UpdateNodeLoad(c, id, load)
    \/ \E c \in Coords : UpdateNodeLoadRegister(c)
    \/ \E c \in Coords : ElectLeader(c)
    \/ \E c \in Coords, job \in ClusterJobs : DistributeJob(c, job, TRUE)

SpecSched == Init /\ [][NextSched]_vars

\* SpecWatch: a watch stream on coordinator 1 while coordinator 2 changes the
\* registry
NextWatch ==
    \/ \E id \in ClusterNodeIds : RegisterNode(2, id, LeaseValue)
    \/ RegisterNodeCache(2)
    \/ \E id \in ClusterNodeIds : UnregisterNode(2, id)
    \/ UnregisterNodeCache(2)
    \/ \E job \in ClusterJobs : DistributeJob(1, job, TRUE)
    \/ WatchNodes(1, 1)
    \/ \E w \in Streams : WatchList(w)
    \/ \E w \in Streams : WatchLock(w)
    \/ \E w \in Streams, id \in ClusterNodeIds : WatchSend(w, id)
    \/ \E w \in Streams : WatchUnlock(w)
    \/ \E w \in Streams : Receive(w)
    \/ Cancel(1)
    \/ \E w \in Streams : WatchStop(w)

SpecWatch == Init /\ [][NextWatch]_vars

(***************************************************************************)
(* SpecOwnWatch: coordinator 1 registers and unregisters nodes and watches *)
(* the registry itself.                                                    *)
(***************************************************************************)
NextOwnWatch ==
    \/ \E id \in ClusterNodeIds : RegisterNode(1, id, LeaseValue)
    \/ RegisterNodeCache(1)
    \/ \E id \in ClusterNodeIds : UnregisterNode(1, id)
    \/ UnregisterNodeCache(1)
    \/ WatchNodes(1, 1)
    \/ \E w \in Streams : WatchList(w)
    \/ \E w \in Streams : WatchLock(w)
    \/ \E w \in Streams, id \in NodeIds : WatchSend(w, id)
    \/ \E w \in Streams : WatchUnlock(w)
    \/ \E w \in Streams : Receive(w)

SpecOwnWatch == Init /\ [][NextOwnWatch]_vars

(***************************************************************************)
(* SpecRegistry: the registry calls of coordinator 1, one after the other. *)
(***************************************************************************)
RegistryValues == [status : Statuses, caps : CapSets, load : {LightLoad}]

NextRegistry ==
    \/ \E id \in ClusterNodeIds, val \in RegistryValues : RegisterNode(1, id, val)
    \/ RegisterNodeCache(1)
    \/ \E id \in ClusterNodeIds : UnregisterNode(1, id)
    \/ UnregisterNodeCache(1)
    \/ \E id \in ClusterNodeIds, load \in Loads : UpdateNodeLoad(1, id, load)
    \/ UpdateNodeLoadRegister(1)
    \/ \E id \in ClusterNodeIds : UpdateNodeLoadMissing(1, id)
    \/ UpdateNodeLoadError(1)

SpecRegistry == Init /\ [][NextRegistry]_vars

(***************************************************************************)
(* SpecWatchLive: coordinator 2 changes the registry, coordinator 1        *)
(* watches it and cancels its context.  The goroutine of WatchNodes takes  *)
(* every step it can take; nothing is assumed of the consumer of the       *)
(* channel, which may stop receiving.                                      *)
(***************************************************************************)
NextWatchLive ==
    \/ \E id \in ClusterNodeIds : RegisterNode(2, id, LeaseValue)
    \/ RegisterNodeCache(2)
    \/ \E id \in ClusterNodeIds : UnregisterNode(2, id)
    \/ UnregisterNodeCache(2)
    \/ WatchNodes(1, 1)
    \/ \E w \in Streams : WatchList(w)
    \/ \E w \in Streams : WatchLock(w)
    \/ \E w \in Streams, id \in NodeIds : WatchSend(w, id)
    \/ \E w \in Streams : WatchUnlock(w)
    \/ \E w \in Streams : Receive(w)
    \/ Cancel(1)
    \/ \E w \in Streams : WatchStop(w)

WatchFairness ==
    \A w \in Streams :
        /\ WF_vars(WatchStop(w))
        /\ WF_vars(WatchList(w))
        /\ WF_vars(WatchLock(w))
        /\ WF_vars(\E id \in NodeIds : WatchSend(w, id))
        /\ WF_vars(WatchUnlock(w))

SpecWatchLive == Init /\ [][NextWatchLive]_vars /\ WatchFairness

(***************************************************************************)
(* SpecStreams: coordinator 1 opens its watch streams, each with its own   *)
(* goroutine and channel; when all are open, coordinator 2 registers and   *)
(* unregisters node 1.                                                     *)
(***************************************************************************)
AllOpen == \A w \in Streams : watch[w].pc # "off"

NextStreams ==
    \/ \E w \in Streams : WatchNodes(w, 1)
    \/ AllOpen /\ RegisterNode(2, 1, LeaseValue)
    \/ RegisterNodeCache(2)
    \/ AllOpen /\ UnregisterNode(2, 1)
    \/ UnregisterNodeCache(2)
    \/ \E w \in Streams : WatchList(w)
    \/ \E w \in Streams : WatchLock(w)
    \/ \E w \in Streams, id \in NodeIds : WatchSend(w, id)
    \/ \E w \in Streams : WatchUnlock(w)
    \/ \E w \in Streams : Receive(w)

SpecStreams == Init /\ [][NextStreams]_vars

(***************************************************************************)
(* SpecCancel: coordinator 1 registers its node and stands for election;   *)
(* its leases are renewed, fail to be renewed, are cancelled and expire.   *)
(***************************************************************************)
NextCancel ==
    \/ RegisterNode(1, 1, LeaseValue)
    \/ RegisterNodeCache(1)
    \/ ElectLeader(1)
    \/ LeaseNext

SpecCancel == Init /\ [][NextCancel]_vars

(***************************************************************************)
(* SpecDist: DistributeJob as a function of the registry and the job: one  *)
(* call, with every job, on every table of registered nodes.               *)
(***************************************************************************)
InitDist ==
    /\ \E S \in SUBSET NodeIds : kvNodes \in [S -> NodeValues]
    /\ InitRest

NextDist ==
    \E job \in DistJobs, storeUp \in BOOLEAN :
        dist = NoDist /\ DistributeJob(1, job, storeUp)

SpecDist == InitDist /\ [][NextDist]_vars

(***************************************************************************)
(* SpecTie: DistributeJob on tables of nodes whose scores are equal.  Both *)
(* loads score exactly 2 * (1 + priority/10), in float64 too (every term   *)
(* is a multiple of 1/2): cpu .5, mem .5 with no active job, and cpu 0,    *)
(* mem .5 with one active job.                                             *)
(***************************************************************************)
TieValues == [status : {"active"}, caps : {{"http"}}, load : {EvenLoad, BusyLoad}]

InitTie ==
    /\ \E S \in SUBSET NodeIds : kvNodes \in [S -> TieValues]
    /\ InitRest

SpecTie == InitTie /\ [][NextDist]_vars

(***************************************************************************)
(* SpecPriority: DistributeJob with a job of any priority, on tables of    *)
(* active nodes whose loads have real scores that are equal or far apart.  *)
(***************************************************************************)
PriorityValues ==
    [status : {"active"}, caps : {{"http"}},
     load : {LightLoad, SpareCpuLoad, SpareMemLoad}]
PriorityJobs == [id : {1}, priority : PriorityRange, reqs : {{}, {"http"}}]

InitPriority ==
    /\ \E S \in SUBSET NodeIds : kvNodes \in [S -> PriorityValues]
    /\ InitRest

NextPriority ==
    \E job \in PriorityJobs, storeUp \in BOOLEAN :
        dist = NoDist /\ DistributeJob(1, job, storeUp)

SpecPriority == InitPriority /\ [][NextPriority]_vars

(***************************************************************************)
(* SpecQueue: producers enqueue jobs; a consumer process subscribes to the *)
(* priority queue, may stop at any point and subscribe again.              *)
(***************************************************************************)
NextQueue ==
    \/ \E priority \in JobPriorities : Enqueue(priority)
    \/ Subscribe
    \/ \E t \in Tiers : ReadMessage(t)
    \/ \E t \in Tiers, ok \in BOOLEAN : Handle(t, ok)
    \/ Crash

SpecQueue == Init /\ [][NextQueue]_vars

(***************************************************************************)
(* SpecUpdate: coordinator 1 registers and unregisters the nodes, and      *)
(* coordinator 2 reports their loads with UpdateNodeLoad at the same time. *)
(***************************************************************************)
NextUpdate ==
    \/ \E id \in ClusterNodeIds : RegisterNode(1, id, LeaseValue)
    \/ RegisterNodeCache(1)
    \/ \E id \in ClusterNodeIds : UnregisterNode(1, id)
    \/ UnregisterNodeCache(1)
    \/ \E id \in ClusterNodeIds, load \in Loads : UpdateNodeLoad(2, id, load)
    \/ UpdateNodeLoadRegister(2)
    \/ RegisterNodeCache(2)
    \/ \E id \in ClusterNodeIds : UpdateNodeLoadMissing(2, id)
    \/ UpdateNodeLoadError(2)

SpecUpdate == Init /\ [][NextUpdate]_vars

(***************************************************************************)
(* SpecEnqueue: PriorityQueue.Enqueue as a function of the priorities      *)
(* NewPriorityQueue was given and of job.Priority: a priority queue over   *)
(* any set of the priorities PriorityQueue.Subscribe looks at, and one     *)
(* Enqueue of a job of any of these priorities.                            *)
(***************************************************************************)
InitEnqueue ==
    /\ kvNodes = [n \in {} |-> NoVal]
    /\ InitCluster
    /\ \E tiers \in SUBSET PriorityRange : InitQueue(tiers)
    /\ InitCache

NextEnqueue ==
    \E priority \in PriorityRange : nextId = 1 /\ Enqueue(priority)

SpecEnqueue == InitEnqueue /\ [][NextEnqueue]_vars

(***************************************************************************)
(* SpecCache: items are set in the secondary tier, the key is looked up    *)
(* with DistributedCache.Get, and time passes.                             *)
(***************************************************************************)
NextCache ==
    \/ \E ttl \in 0..MaxTTL : SecondarySet(ttl)
    \/ \E elapsed \in {0, 1} : Get(elapsed)
    \/ Clock

SpecCache == Init /\ [][NextCache]_vars

(***************************************************************************)
(* Properties.                                                             *)
(***************************************************************************)

\* the coordinators whose session holds the lock on the leader key
Holders == {c \in Coords : kvLeader.session # NoSession /\ kvLeader.value = c}

\* C1: at every instant at most one node holds the leader claim, and once a
\* leader was elected the time with no holder is never longer than the lock
\* TTL.
C1_SingleLeader ==
    /\ Cardinality(Holders) <= 1
    /\ gap <= SessionTTL

\* the nodes the leader's DistributeJob calls have returned for job j
LeaderAssignees(j) == {a.node : a \in {b \in assigned[j] : b.leader}}

\* C2: for every job, the DistributeJob calls of the leader (there is no
\* hand-off: the leader's lease does not expire in SpecSched) have handed
\* the job to at most one node.
C2_NoDoubleAssignment ==
    \A j \in JobIds : Cardinality(LeaderAssignees(j)) <= 1

\* C3: the handler is never invoked with a job of a tier while a job of a
\* higher tier is ready, and was ready when the job was dequeued.
C3_StrictPriority == ~invoked.higher

\* job j is in a topic behind the committed offset, or a reader holds it
Pending(j) ==
    \/ \E t \in Tiers : \E i \in (offset[t] + 1)..Len(topics[t]) : topics[t][i].id = j
    \/ \E t \in Tiers : reader[t].state = "got" /\ reader[t].job = j

Accepted == 1..(nextId - 1)

\* C4: a job whose handler returned an error on every delivery is waiting
\* for a redelivery (and was delivered at most maxRetries + 1 times) or is in
\* the dead-letter destination.
C4_RetryDeadLetter ==
    \A j \in Accepted :
        (delivered[j] >= 1 /\ failures[j] = delivered[j]) =>
            \/ Pending(j) /\ delivered[j] <= JobMaxRetries + 1
            \/ j \in deadLetter

\* C5: every job Enqueue accepted has been passed to the handler, or is
\* still to be delivered: in its topic behind the committed offset, or held
\* by a reader that will call the handler with it.
C5_AtLeastOnce ==
    \A j \in Accepted : delivered[j] >= 1 \/ Pending(j)

\* C6: a node listed by GetNodes had its lease created or renewed within
\* the TTL plus one renewal interval.
C6_LivenessDetection ==
    \A n \in DOMAIN GetNodes : leaseAge[n] <= DetectBound

\* job j is back in a queue topic
Requeued(j) == \E t \in Tiers : \E i \in 1..Len(topics[t]) : topics[t][i].id = j

\* C7: when the consumer of the watch stream has received the Left event of
\* a node that DistributeJob returned for a job, the job is requeued or its
\* binding to the node is gone.
C7_RequeueOnLoss ==
    \A w \in Streams : \A j \in JobIds :
        (/\ received[w].type = "node_left"
         /\ \E a \in assigned[j] : a.node = received[w].id) =>
            Requeued(j)

\* C8: a DistributeJob call returns a node only on the coordinator that is
\* the leader.
C8_LeaderOnly == dist.node # NoNode => dist.leader

\* node n is active and has every capability in reqs
Suitable(n, reqs) == kvNodes[n].status = "active" /\ reqs \subseteq kvNodes[n].caps

\* C9: DistributeJob returns only a registered node that is active and has
\* every requirement of the job among its capabilities, and, the node list
\* read, it fails with the no-suitable-node error exactly when no registered
\* node is such a node.
C9_Eligibility ==
    dist.coord # 0 =>
        /\ dist.node # NoNode =>
              dist.node \in DOMAIN kvNodes /\ Suitable(dist.node, dist.reqs)
        /\ dist.err # "list_failed" =>
              (dist.err = "no_suitable_node"
                  <=> ~\E n \in DOMAIN kvNodes : Suitable(n, dist.reqs))
        /\ dist.err # "none" <=> dist.node = NoNode

\* C9 witness: active nodes are registered, none advertises
\* browser_scraping, and a job that requires it got the no-suitable-node
\* error.
C9_Witness ==
    /\ dist.err = "no_suitable_node"
    /\ dist.reqs = {"browser_scraping"}
    /\ \E n \in DOMAIN kvNodes : kvNodes[n].status = "active"

\* the job of the last DistributeJob call
DistJob == [id |-> dist.job, priority |-> dist.priority, reqs |-> dist.reqs]

\* C10 (as amended): the node DistributeJob returns has the maximal score
\* among the eligible nodes, where the score of a node without a load
\* snapshot is 0 and the score of any other node is
\* ((1-cpu) + (1-memory) + 1/(activeJobs+1)) * (1 + priority/10).
C10_MaxScore ==
    dist.node # NoNode =>
        \A n \in DOMAIN kvNodes :
            Suitable(n, dist.reqs) =>
                ~ScoreGreater(calculateNodeScore(kvNodes[n], DistJob),
                              calculateNodeScore(kvNodes[dist.node], DistJob))

\* C10 witness (Scenario A): N1 (cpu .1, mem .1, 0 active) and N2 (cpu .9,
\* mem .9, 5 active), both active with capability http; the job with
\* requirement http and priority 5 went to N1.
C10_Witness ==
    /\ DOMAIN kvNodes = {1, 2}
    /\ kvNodes[1] = [status |-> "active", caps |-> {"http"}, load |-> LightLoad]
    /\ kvNodes[2] = [status |-> "active", caps |-> {"http"}, load |-> HeavyLoad]
    /\ dist.reqs = {"http"}
    /\ dist.priority = 5
    /\ dist.node = 1

\* the formula of the score applied to every node: a node that reports no
\* load snapshot has no cpu, memory or active jobs to subtract
FormulaScore(node, job) == ScoreTable[node.load, job.priority]

\* C10 (as stated): the node DistributeJob returns has the maximal value of
\* the formula among the eligible nodes, the nodes that report no load
\* snapshot included.
C10_MaxFormula ==
    dist.node # NoNode =>
        \A n \in DOMAIN kvNodes :
            Suitable(n, dist.reqs) =>
                ~ScoreGreater(FormulaScore(kvNodes[n], DistJob),
                              FormulaScore(kvNodes[dist.node], DistJob))

\* the score of node n for the job of the last DistributeJob call
ScoreOf(n) == calculateNodeScore(kvNodes[n], DistJob)

\* the eligible nodes with the maximal score
TopNodes ==
    {n \in DOMAIN kvNodes :
        /\ Suitable(n, dist.reqs)
        /\ \A m \in DOMAIN kvNodes :
              Suitable(m, dist.reqs) => ~ScoreGreater(ScoreOf(m), ScoreOf(n))}

\* C11: among the eligible nodes with the maximal score, the node
\* DistributeJob returns has the lowest activeJobs and, among those, the
\* lowest node id.
C11_TieBreak ==
    dist.node # NoNode =>
        \A n \in TopNodes :
            \/ kvNodes[dist.node].load.active < kvNodes[n].load.active
            \/ /\ kvNodes[dist.node].load.active = kvNodes[n].load.active
               /\ dist.node <= n

C13_EventOrder == \A w \in Streams : ~watch[w].repeated

\* C14: when processNodeChanges has sent the events of a pass, they are a
\* Joined event for every id that only the snapshot of this pass has and a
\* Left event for every id that only the snapshot of the pass before has.
C14_Completeness ==
    \A w \in Streams :
        (/\ watch[w].pc = "send"
         /\ watch[w].joined = {}
         /\ watch[w].left = {}
         /\ watch[w].passes >= 1) =>
            /\ watch[w].sentJoined = watch[w].snap \ watch[w].prev
            /\ watch[w].sentLeft = watch[w].prev \ watch[w].snap

\* C15: RegisterNode leaves exactly one entry for the node's id, holding the
\* value of the call, and changes no other entry; registering a node whose
\* entry already holds that value leaves GetNodes and GetNode as they were.
C15_IdempotentUpsert ==
    [][\A id \in ClusterNodeIds, val \in RegistryValues :
          RegisterNode(1, id, val) =>
              /\ DOMAIN GetNodes' = DOMAIN GetNodes \cup {id}
              /\ GetNode(id)' = val
              /\ \A n \in DOMAIN GetNodes \ {id} : GetNode(n)' = GetNode(n)
              /\ GetNode(id) = val => GetNodes' = GetNodes]_vars

\* C15 witness: node 1 was registered twice (it has two leases) and the
\* registry holds the value of the call in flight.
C15_Witness ==
    /\ call[1].op = "register"
    /\ call[1].id = 1
    /\ GetNode(1) = call[1].val
    /\ Cardinality({s \in SessionIds :
                       sessions[s].kind = "node" /\ sessions[s].owner = 1}) >= 2

\* the renewSession goroutines that renew a lease of node id
RenewalTasks(id) ==
    {s \in SessionIds :
        sessions[s].kind = "node" /\ sessions[s].owner = id /\ sessions[s].task}

\* C16: when no call is in flight, an id that is absent from GetNodes has
\* no renewal task running for a lease of that node.
C16_UnregisterCancels ==
    \A id \in ClusterNodeIds :
        (call[1] = Idle /\ id \notin DOMAIN GetNodes) => RenewalTasks(id) = {}

\* C17: UpdateNodeLoad of a registered id writes the entry it read with the
\* new load and nothing else: status and capabilities of the id and every
\* other entry stay as they were, and a replay with the load the entry has
\* leaves GetNode unchanged; for an id with no entry it returns the error
\* and the registry is unchanged.
C17_LoadFrame ==
    [][/\ UpdateNodeLoadRegister(1) =>
             /\ call[1].id \in DOMAIN GetNodes
             /\ GetNodes' = [GetNodes EXCEPT ![call[1].id].load = call[1].val.load]
             /\ GetNode(call[1].id)'.status = GetNode(call[1].id).status
             /\ GetNode(call[1].id)'.caps = GetNode(call[1].id).caps
             /\ GetNode(call[1].id).load = call[1].val.load => GetNodes' = GetNodes
       /\ \A id \in ClusterNodeIds :
             UpdateNodeLoadMissing(1, id) \/ call[1].op = "update_error" =>
                 /\ GetNodes' = GetNodes
                 /\ call'[1].op \in {"update_error", "idle"}]_vars

\* C17 witness: an inactive node with two capabilities had its load
\* replaced, and the same load is being written again.
C17_Witness ==
    /\ call[1].op = "update"
    /\ call[1].val.load = HeavyLoad
    /\ GetNode(call[1].id) = [status |-> "inactive",
                              caps |-> {"http", "browser_scraping"},
                              load |-> HeavyLoad]

\* the leases of nodes whose renewal was given up: the session is live, its
\* context is not cancelled, and no renewSession goroutine renews it
GivenUp ==
    {s \in SessionIds :
        /\ sessions[s].live
        /\ sessions[s].kind = "node"
        /\ ~cancelled[sessions[s].ctx]
        /\ ~sessions[s].task}

\* C18: the renewal of a node's lease is given up (the retry budget is
\* exhausted) only with the node removed from the registry.
C18_RenewalBudget ==
    \A s \in GivenUp : sessions[s].owner \notin DOMAIN GetNodes

\* C19: when DistributeJob has returned a node for a job, the job's
\* assignedTo is the id of that node.
C19_AssignmentRecorded ==
    dist.node # NoNode => assignedTo[dist.job] = dist.node

C21_WatchCancellable ==
    \A w \in Streams :
        (watch[w].pc # "off" /\ cancelled[watch[w].coord]) ~> (watch[w].pc = "closed")

\* the watch loops that wait to send an event on a full channel; they hold
\* the mutex of their coordinator
BlockedSenders ==
    {w \in Streams :
        /\ watch[w].pc = "send"
        /\ watch[w].joined \cup watch[w].left # {}
        /\ Len(eventCh[w]) >= EventChCap}

\* C28: no watch loop waits on a full event channel while it holds the
\* mutex of its coordinator, so that a RegisterNode or UnregisterNode call
\* on the coordinator that waits for the mutex can always go on.
C28_RegistryNotBlocked ==
    \A w \in BlockedSenders : ~mu[watch[w].coord]

\* C22: the cancellation of a coordinator's context stops every renewal
\* task started with it, of node leases and of the leader lease, and
\* deletes nothing: the node entries, the leader key and its holder and the
\* sessions stay as they are; the leader lock is released only by the
\* expiry of the session that holds it.
C22_CancelKeeps ==
    [][/\ \A c \in Coords :
             Cancel(c) =>
                 /\ \A s \in SessionIds : sessions[s].ctx = c => ~sessions'[s].task
                 /\ \A s \in SessionIds :
                       sessions[s].live =>
                           /\ sessions'[s].live
                           /\ sessions'[s].age = sessions[s].age
                 /\ GetNodes' = GetNodes
                 /\ kvLeader' = kvLeader
       /\ (kvLeader.session # NoSession /\ kvLeader'.session = NoSession) =>
             /\ SessionExpire(kvLeader.session)
             /\ kvLeader'.value = kvLeader.value]_vars

\* C22 witness: the context of coordinator 1 is cancelled while it holds
\* the leader lock and its node is registered; no renewal task is left, and
\* the node entry, the leader key and the sessions are there.
C22_Witness ==
    /\ cancelled[1]
    /\ 1 \in DOMAIN GetNodes
    /\ kvLeader.value = 1
    /\ kvLeader.session # NoSession
    /\ sessions[kvLeader.session].live
    /\ \E s \in SessionIds : sessions[s].live /\ sessions[s].kind = "node"
    /\ \A s \in SessionIds : ~sessions[s].task

\* the job of the last Enqueue is a message of a topic
Published ==
    \E t \in Configured : \E i \in 1..Len(topics[t]) : topics[t][i].id = enq.job

(***************************************************************************)
(* C23: Enqueue routing.  For every set of configured tiers and every job  *)
(* priority in 0..10, a call of PriorityQueue.Enqueue does not panic, the  *)
(* job is a message of a topic afterwards, and it is in the topic of       *)
(* job.Priority whenever that tier is configured.                          *)
(***************************************************************************)
C23_EnqueueRouting ==
    enq.result # "none" =>
        /\ enq.result = "ok"
        /\ Published
        /\ enq.priority \in Configured => enq.tier = enq.priority

(***************************************************************************)
(* C24: IsLeader implies lock ownership.  At every instant IsLeader is     *)
(* true on a node only if a live session of that node holds the lock on    *)
(* the leader key; after the leader's session has expired and before the   *)
(* lock is acquired again, IsLeader is false on every node.                *)
(***************************************************************************)
C24_IsLeaderHoldsLock ==
    \A c \in Coords :
        IsLeader(c) =>
            /\ kvLeader.session # NoSession
            /\ sessions[kvLeader.session].live
            /\ sessions[kvLeader.session].owner = c

\* the lease sessions that exist for node id
LeaseSessions(id) ==
    {s \in SessionIds :
        sessions[s].live /\ sessions[s].kind = "node" /\ sessions[s].owner = id}

(***************************************************************************)
(* C25: bounded leases per node.  After any sequence of RegisterNode and   *)
(* UpdateNodeLoad calls of the coordinator, every node id has at most one  *)
(* lease session and at most one running renewal task.                     *)
(***************************************************************************)
C25_BoundedLeases ==
    \A id \in ClusterNodeIds :
        /\ Cardinality(LeaseSessions(id)) <= 1
        /\ Cardinality(RenewalTasks(id)) <= 1

(***************************************************************************)
(* C26: no resurrection after unregister.  When no RegisterNode or         *)
(* UnregisterNode call is in flight (the last UnregisterNode has returned) *)
(* an id that is absent from GetNodes becomes present only by the step of  *)
(* an explicit RegisterNode call, whatever UpdateNodeLoad calls are in     *)
(* flight.                                                                 *)
(***************************************************************************)
C26_NoResurrection ==
    [][\A id \in ClusterNodeIds :
          (/\ call[1] = Idle
           /\ id \notin DOMAIN GetNodes
           /\ id \in DOMAIN GetNodes') =>
              RegisterNode(1, id, LeaseValue)]_vars

(***************************************************************************)
(* C27: selection is independent of priority.  The node DistributeJob has  *)
(* returned for a job is the node it returns, on the same nodes, for the   *)
(* job with any other priority in 0..10.                                   *)
(***************************************************************************)
C27_PriorityIndependent ==
    dist.node # NoNode =>
        \A priority \in PriorityRange :
            BestNode(GetNodes, [DistJob EXCEPT !.priority = priority]) = dist.node

(***************************************************************************)
(* C29: independent watch streams.  Every stream that was open when the    *)
(* registry changed and has finished a pass has sent a Joined event for    *)
(* every node of the snapshot of that pass, and a Left event for every     *)
(* node it had announced that the snapshot lacks: no stream misses an      *)
(* event because another stream had it.                                    *)
(***************************************************************************)
C29_IndependentStreams ==
    \A w \in Streams :
        (watch[w].pc = "list" /\ watch[w].passes >= 1) =>
            \A id \in NodeIds :
                /\ id \in watch[w].prev => watch[w].last[id] = "node_joined"
                /\ id \notin watch[w].prev => watch[w].last[id] # "node_joined"

(***************************************************************************)
(* C30: cache promotion keeps the expiry.  A DistributedCache.Get that     *)
(* misses in the primary tier and hits in the secondary leaves the item in *)
(* the primary with an ExpiresAt no later than the ExpiresAt of the item   *)
(* of the secondary (up to the time the call itself has taken), also when  *)
(* no lifetime remains.                                                    *)
(***************************************************************************)
C30_PromotionKeepsExpiry ==
    [][\A elapsed \in {0, 1} :
          (Get(elapsed) /\ ~Hit(primary) /\ Hit(secondary)) =>
              /\ primary'.present
              /\ primary'.expiresAt <= secondary.expiresAt + elapsed]_vars

====
